---- MODULE Spec2Model ----
(***************************************************************************)
(* Model of "Part I/Chapter 3/main.c" (Data Races).                        *)
(*                                                                         *)
(* main creates two threads that each run thread_function, joins them in   *)
(* the order t1, t2, prints shared_data and returns 0.  thread_function    *)
(* executes shared_data++ with no synchronisation: a load of shared_data   *)
(* into a register, an add of one to the register, and a store of the      *)
(* register back to shared_data.                                           *)
(*                                                                         *)
(* pthread_create may fail (it returns an error number); main ignores the  *)
(* result, so the pthread_t of a failed create stays indeterminate and the *)
(* later pthread_join on it is undefined: it either returns an error at    *)
(* once or the process is killed by a signal.                              *)
(***************************************************************************)
EXTENDS Integers, Sequences, FiniteSets

VARIABLES
    shared_data,  \* line 3: int shared_data
    pc,           \* position of main (lines 10-18)
    tpc,          \* tpc[t]: position of the thread started for handle t
    reg,          \* reg[t]: the register thread t increments shared_data in
    handle,       \* handle[t]: state of the pthread_t variable t1 / t2
    out,          \* bytes written to standard output
    exit,         \* <<>> while the process runs, else <<exit status>>
    hist          \* history: the steps the threads have taken on shared_data,
                  \* <<t, "load", value loaded>>, <<t, "store", value stored>>,
                  \* <<t, "return", shared_data at the return>>, in order

vars == <<shared_data, pc, tpc, reg, handle, out, exit, hist>>

\* line 11: pthread_t t1, t2
Threads == {1, 2}

----------------------------------------------------------------------------
(* printf("%d\n", v): decimal conversion followed by a newline             *)

DigitChar(d) == <<"0", "1", "2", "3", "4", "5", "6", "7", "8", "9">>[d + 1]

RECURSIVE Digits(_)
Digits(n) == IF n < 10 THEN <<DigitChar(n)>>
             ELSE Append(Digits(n \div 10), DigitChar(n % 10))

\* variant: a conversion that emits no digit for zero
Decimal_ZeroEmpty(n) == IF n = 0 THEN <<>>
                        ELSE IF n < 0 THEN <<"-">> \o Digits(-n) ELSE Digits(n)

Decimal(n) == IF n < 0 THEN <<"-">> \o Digits(-n) ELSE Digits(n)

\* variant: the format string lacks the "\n"
FormatLine_NoNewline(n) == Decimal(n)

FormatLine(n) == Decimal(n) \o <<"\n">>

----------------------------------------------------------------------------
(* helpers                                                                 *)

Running == exit = <<>>

\* variant: the load is replaced by the initialiser of shared_data
Loaded_Initial(t) == 0

\* shared_data++ : the value the load of thread t observes
Loaded(t) == shared_data

\* variant: the statement is shared_data += 2
Incremented_ByTwo(t) == reg[t] + 2

\* variant: the statement is shared_data--
Incremented_Decrement(t) == reg[t] - 1

\* shared_data++ : the register after the add
Incremented(t) == reg[t] + 1

\* variant: the increment is applied to memory atomically at the store
Stored_Atomic(t) == shared_data + 1

\* shared_data++ : the value the store of thread t writes back
Stored(t) == reg[t]

\* a thread has terminated once thread_function has returned
ThreadTerminated(t) == tpc[t] = "done"

\* variant: the join does not wait for the thread
JoinMayReturn_NoWait(t) == TRUE

\* variant: every join waits for the thread of t1
JoinMayReturn_FirstThread(t) == ThreadTerminated(1)

\* pthread_join on a live handle blocks until the thread has terminated
JoinMayReturn(t) == ThreadTerminated(t)

\* the value printf receives as its argument
PrintfArg == shared_data

\* the status main returns
MainReturnValue == 0

----------------------------------------------------------------------------
Init ==
    /\ shared_data = 0
    /\ pc = "create1"
    /\ tpc = [t \in Threads |-> "unborn"]
    /\ reg = [t \in Threads |-> 0]
    /\ handle = [t \in Threads |-> "indeterminate"]
    /\ out = <<>>
    /\ exit = <<>>
    /\ hist = <<>>

(* thread_function, lines 5-8 *)

thread_function_load(t) ==
    /\ Running
    /\ tpc[t] = "load"
    /\ reg' = [reg EXCEPT ![t] = Loaded(t)]
    /\ tpc' = [tpc EXCEPT ![t] = "add"]
    /\ hist' = Append(hist, <<t, "load", reg'[t]>>)
    /\ UNCHANGED <<shared_data, pc, handle, out, exit>>

thread_function_add(t) ==
    /\ Running
    /\ tpc[t] = "add"
    /\ reg' = [reg EXCEPT ![t] = Incremented(t)]
    /\ tpc' = [tpc EXCEPT ![t] = "store"]
    /\ UNCHANGED <<shared_data, pc, handle, out, exit, hist>>

thread_function_store(t) ==
    /\ Running
    /\ tpc[t] = "store"
    /\ shared_data' = Stored(t)
    /\ tpc' = [tpc EXCEPT ![t] = "return"]
    /\ hist' = Append(hist, <<t, "store", shared_data'>>)
    /\ UNCHANGED <<pc, reg, handle, out, exit>>

\* variant: thread_function never returns
thread_function_return_Never(t) ==
    /\ Running
    /\ tpc[t] = "return"
    /\ UNCHANGED vars

thread_function_return(t) ==
    /\ Running
    /\ tpc[t] = "return"
    /\ tpc' = [tpc EXCEPT ![t] = "done"]
    /\ hist' = Append(hist, <<t, "return", shared_data>>)
    /\ UNCHANGED <<shared_data, pc, reg, handle, out, exit>>

thread_function(t) ==
    \/ thread_function_load(t)
    \/ thread_function_add(t)
    \/ thread_function_store(t)
    \/ thread_function_return(t)

(* main, lines 10-18 *)

\* pthread_create(&t, NULL, thread_function, NULL); the result is ignored
pthread_create(t, here, next) ==
    /\ Running
    /\ pc = here
    /\ \E ok \in BOOLEAN :
          IF ok
          THEN /\ handle' = [handle EXCEPT ![t] = "live"]
               /\ tpc' = [tpc EXCEPT ![t] = "load"]
          ELSE /\ UNCHANGED <<handle, tpc>>
    /\ pc' = next
    /\ UNCHANGED <<shared_data, reg, out, exit, hist>>

\* pthread_join(t, NULL) on a handle that names a thread
pthread_join_live(t, here, next) ==
    /\ Running
    /\ pc = here
    /\ handle[t] = "live"
    /\ JoinMayReturn(t)
    /\ handle' = [handle EXCEPT ![t] = "joined"]
    /\ pc' = next
    /\ UNCHANGED <<shared_data, tpc, reg, out, exit, hist>>

\* pthread_join(t, NULL) on an indeterminate handle: returns an error
pthread_join_error(t, here, next) ==
    /\ Running
    /\ pc = here
    /\ handle[t] = "indeterminate"
    /\ pc' = next
    /\ UNCHANGED <<shared_data, tpc, reg, handle, out, exit, hist>>

\* pthread_join(t, NULL) on an indeterminate handle: the process is killed
pthread_join_crash(t, here) ==
    /\ Running
    /\ pc = here
    /\ handle[t] = "indeterminate"
    /\ pc' = "Terminated"
    /\ exit' = <<128 + 11>>
    /\ UNCHANGED <<shared_data, tpc, reg, handle, out, hist>>

pthread_join(t, here, next) ==
    \/ pthread_join_live(t, here, next)
    \/ pthread_join_error(t, here, next)
    \/ pthread_join_crash(t, here)

main_create1 == pthread_create(1, "create1", "create2")
main_create2 == pthread_create(2, "create2", "join1")
\* variant: the first join names t2
main_join1_Second == pthread_join(2, "join1", "join2")

main_join1 == pthread_join(1, "join1", "join2")

\* variant: main does not join t2
main_join2_Skip ==
    /\ Running
    /\ pc = "join2"
    /\ pc' = "printf"
    /\ UNCHANGED <<shared_data, tpc, reg, handle, out, exit, hist>>

main_join2 == pthread_join(2, "join2", "printf")

\* variant: the argument of printf is shared_data++
main_printf_Increment ==
    /\ Running
    /\ pc = "printf"
    /\ out' = out \o FormatLine(PrintfArg)
    /\ shared_data' = shared_data + 1
    /\ pc' = "return"
    /\ UNCHANGED <<tpc, reg, handle, exit, hist>>

main_printf ==
    /\ Running
    /\ pc = "printf"
    /\ out' = out \o FormatLine(PrintfArg)
    /\ pc' = "return"
    /\ UNCHANGED <<shared_data, tpc, reg, handle, exit, hist>>

main_return ==
    /\ Running
    /\ pc = "return"
    /\ exit' = <<MainReturnValue>>
    /\ pc' = "Terminated"
    /\ UNCHANGED <<shared_data, tpc, reg, handle, out, hist>>

main ==
    \/ main_create1
    \/ main_create2
    \/ main_join1
    \/ main_join2
    \/ main_printf
    \/ main_return

Next ==
    \/ main
    \/ \E t \in Threads : thread_function(t)

Spec == Init /\ [][Next]_vars

\* the host schedules main and every started thread
FairSpec == Spec /\ WF_vars(main) /\ \A t \in Threads : WF_vars(thread_function(t))

----------------------------------------------------------------------------
(* state predicates shared by the properties                               *)

\* some pthread_create that main has already passed did not start a thread
SpawnFailed ==
    \/ pc # "create1" /\ handle[1] = "indeterminate"
    \/ pc \notin {"create1", "create2"} /\ handle[2] = "indeterminate"

\* main has returned after both threads were created and joined
CompletedNormally ==
    /\ pc = "Terminated"
    /\ \A t \in Threads : handle[t] = "joined"

\* main has passed the printf
Reported == pc = "return" \/ (pc = "Terminated" /\ out # <<>>)

TypeOK ==
    /\ shared_data \in 0..2
    /\ pc \in {"create1", "create2", "join1", "join2", "printf", "return", "Terminated"}
    /\ tpc \in [Threads -> {"unborn", "load", "add", "store", "return", "done"}]
    /\ reg \in [Threads -> 0..2]
    /\ out \in Seq({"0", "1", "2", "\n"})
    /\ exit \in {<<>>, <<0>>, <<139>>}
    /\ handle \in [Threads -> {"indeterminate", "live", "joined"}]
    /\ hist \in Seq(Threads \X {"load", "store", "return"} \X (0..2))

----------------------------------------------------------------------------
(* C1: in every run of main that completes normally (both threads created  *)
(* and joined) the line printed holds 1 or 2, whatever the interleaving of *)
(* the two threads' loads and stores.                                      *)
C1_EmittedOneOrTwo ==
    CompletedNormally => out \in {<<"1", "\n">>, <<"2", "\n">>}

C1_Witness ==
    /\ CompletedNormally
    /\ exit = <<0>>
    /\ shared_data = 2
    /\ out = <<"2", "\n">>

(* C2: both outcomes occur.  A run that completes normally prints 1 when   *)
(* both threads loaded 0 (each register ends at 1: a lost update) and      *)
(* prints 2 when one thread loaded the other's store (registers 1 and 2);  *)
(* C2_Witness is a run of the first kind, C2_WitnessTwo of the second.     *)
C2_BothOutcomes ==
    CompletedNormally =>
        /\ (reg[1] = 1 /\ reg[2] = 1) => out = <<"1", "\n">>
        /\ (reg[1] # reg[2]) => out = <<"2", "\n">>
        /\ (reg[1] = 1 /\ reg[2] = 1) \/ {reg[1], reg[2]} = {1, 2}

C2_Witness ==
    /\ CompletedNormally
    /\ reg[1] = 1 /\ reg[2] = 1
    /\ out = <<"1", "\n">>

C2_WitnessTwo ==
    /\ CompletedNormally
    /\ {reg[1], reg[2]} = {1, 2}
    /\ out = <<"2", "\n">>

(* C3: a join on a thread returns only after that thread has left          *)
(* thread_function, and main reaches the printf (its read of shared_data)  *)
(* only after both joins have returned; at the read no thread is between   *)
(* its load and its store.                                                 *)
C3_ReadAfterJoins ==
    /\ \A t \in Threads : handle[t] = "joined" => tpc[t] = "done"
    /\ pc \in {"printf", "return"} \/ Reported =>
          \A t \in Threads : /\ handle[t] # "live"
                             /\ tpc[t] \in {"unborn", "done"}

C3_Witness ==
    /\ pc = "printf"
    /\ \A t \in Threads : handle[t] = "joined" /\ tpc[t] = "done"
    /\ shared_data = 1

(* C4: if a pthread_create fails, main terminates with a nonzero exit      *)
(* status.  (Violated: main ignores the result of pthread_create.)         *)
C4_SpawnFailureExitsNonzero ==
    (pc = "Terminated" /\ SpawnFailed) => exit # <<0>>

(* C5: in every run the exit status is 0.  (Violated: after an ignored     *)
(* pthread_create failure the join on the indeterminate handle can kill    *)
(* the process.)                                                           *)
C5_ExitStatusZero ==
    pc = "Terminated" => exit = <<0>>

(* C6: when both creates succeed main steps through create t1, create t2,  *)
(* join t1, join t2, printf, return, in that order, each exactly once:     *)
(* shared_data is 0 when main starts, a join happens only once both        *)
(* threads were created, t2 is never joined before t1 (also when t2's      *)
(* thread finishes first), and main's position only moves to its successor.*)
C6_Order ==
    {<<"create1", "create2">>, <<"create2", "join1">>, <<"join1", "join2">>,
     <<"join2", "printf">>, <<"printf", "return">>, <<"return", "Terminated">>}

C6_DriverOrder ==
    /\ [](pc = "create1" => shared_data = 0 /\ \A t \in Threads : tpc[t] = "unborn")
    /\ [](~SpawnFailed =>
            /\ handle[1] = "live" <=> pc \in {"create2", "join1"}
            /\ handle[2] = "live" <=> pc \in {"join1", "join2"}
            /\ handle[1] = "joined" <=> pc \in {"join2", "printf", "return", "Terminated"}
            /\ handle[2] = "joined" <=> pc \in {"printf", "return", "Terminated"})
    /\ [][~SpawnFailed' /\ pc' # pc => <<pc, pc'>> \in C6_Order]_vars

C6_Witness ==
    /\ pc = "join1"
    /\ handle = [t \in Threads |-> "live"]
    /\ tpc[2] = "done"
    /\ tpc[1] = "store"

(* C7: when exactly one thread was created (and joined) the line printed   *)
(* holds 1, and when no thread was created it holds 0.                     *)
C7_Created == {t \in Threads : handle[t] # "indeterminate"}

C7_WitnessZero ==
    /\ pc = "Terminated"
    /\ exit = <<0>>
    /\ C7_Created = {}
    /\ out = <<"0", "\n">>

(* C8: under fair scheduling of main and of both threads every run ends:   *)
(* the process always reaches Terminated, while it runs some step is       *)
(* enabled, and once both threads are created both run to completion, both *)
(* joins return and main terminates after printing one line.               *)
C8_Termination ==
    /\ <>(pc = "Terminated")
    /\ [](pc # "Terminated" => ENABLED Next)
    /\ [](pc = "join1" /\ ~SpawnFailed =>
            <>(/\ CompletedNormally
               /\ \A t \in Threads : tpc[t] = "done"
               /\ Len(out) = 2
               /\ exit = <<0>>))

C8_Witness ==
    /\ CompletedNormally
    /\ \A t \in Threads : tpc[t] = "done"
    /\ Len(out) = 2
    /\ exit = <<0>>
    /\ reg = [t \in Threads |-> 1]

(* C9: the increment is a load of shared_data, an add of one and a         *)
(* separate store of the result, with no mutual exclusion: the load and    *)
(* the add leave shared_data alone, the store writes the value its thread  *)
(* loaded plus one whatever shared_data holds by then, and both threads    *)
(* can have loaded while neither has stored (C9_Witness).                  *)
C9_NonAtomicIncrement ==
    [][\A t \in Threads :
          /\ (tpc[t] = "load" /\ tpc'[t] # "load") =>
                /\ tpc'[t] = "add"
                /\ reg'[t] = shared_data
                /\ shared_data' = shared_data
          /\ (tpc[t] = "add" /\ tpc'[t] # "add") =>
                /\ tpc'[t] = "store"
                /\ reg'[t] = reg[t] + 1
                /\ shared_data' = shared_data
          /\ (tpc[t] = "store" /\ tpc'[t] # "store") =>
                /\ tpc'[t] = "return"
                /\ shared_data' = reg[t]]_vars

C9_Witness ==
    /\ \A t \in Threads : tpc[t] = "store" /\ reg[t] = 1
    /\ shared_data = 0

(* C10: main emits exactly once: nothing is on standard output before the  *)
(* printf, only the printf step of main writes to it, and from then on it  *)
(* holds one line, the decimal value shared_data has after the joins.      *)
C10_Line == [v \in 0..2 |-> <<<<"0", "1", "2">>[v + 1], "\n">>]

C10_SingleLine ==
    /\ [](pc \in {"create1", "create2", "join1", "join2", "printf"} => out = <<>>)
    /\ [](Reported => shared_data \in 0..2 /\ out = C10_Line[shared_data])
    /\ [](CompletedNormally => out = C10_Line[shared_data] /\ shared_data \in 1..2)
    /\ [][out' # out => pc = "printf" /\ pc' = "return" /\ tpc' = tpc]_vars

C10_Witness ==
    /\ CompletedNormally
    /\ exit = <<0>>
    /\ shared_data = 1
    /\ out = <<"1", "\n">>

(* C11: each created thread performs exactly one increment and then ends:  *)
(* it loads shared_data at most once and stores at most once, a thread     *)
(* past its store has one load followed by one store of the value loaded   *)
(* plus one, a finished thread has taken no step after its return, and a   *)
(* run that completes normally has seen exactly two stores.                *)
C11_Steps(t, op) == {i \in DOMAIN hist : hist[i][1] = t /\ hist[i][2] = op}

C11_Stores == {i \in DOMAIN hist : hist[i][2] = "store"}

C11_OneIncrementEach ==
    /\ \A t \in Threads :
          /\ Cardinality(C11_Steps(t, "load")) =
                (IF tpc[t] \in {"unborn", "load"} THEN 0 ELSE 1)
          /\ Cardinality(C11_Steps(t, "store")) =
                (IF tpc[t] \in {"return", "done"} THEN 1 ELSE 0)
          /\ Cardinality(C11_Steps(t, "return")) =
                (IF tpc[t] = "done" THEN 1 ELSE 0)
          /\ \A i \in C11_Steps(t, "load") : \A j \in C11_Steps(t, "store") :
                i < j /\ hist[j][3] = hist[i][3] + 1
          /\ \A j \in C11_Steps(t, "store") : \A k \in C11_Steps(t, "return") :
                j < k
    /\ CompletedNormally => Cardinality(C11_Stores) = 2

C11_Witness ==
    /\ CompletedNormally
    /\ Cardinality(C11_Stores) = 2
    /\ \A t \in Threads : Cardinality(C11_Steps(t, "load")) = 1
    /\ shared_data = 2

(* C12: a handle becomes live only by the pthread_create that names it,    *)
(* which starts its thread, and is consumed only by the pthread_join that  *)
(* names it, from live and once; a handle never joined again or joined     *)
(* before it was created, and when main has returned 0 after both creates  *)
(* succeeded no thread is left unjoined.                                   *)
C12_HandleLifecycle ==
    /\ [][\A t \in Threads : handle'[t] # handle[t] =>
            \/ /\ handle[t] = "indeterminate" /\ handle'[t] = "live"
               /\ pc = <<"create1", "create2">>[t]
               /\ tpc[t] = "unborn" /\ tpc'[t] = "load"
            \/ /\ handle[t] = "live" /\ handle'[t] = "joined"
               /\ pc = <<"join1", "join2">>[t]
               /\ pc' = <<"join2", "printf">>[t]]_vars
    /\ [](\A t \in Threads : handle[t] = "indeterminate" <=> tpc[t] = "unborn")
    /\ [](pc = "Terminated" /\ exit = <<0>> =>
            \A t \in Threads : handle[t] # "live")
    /\ [](pc = "Terminated" /\ exit = <<0>> /\ ~SpawnFailed =>
            \A t \in Threads : handle[t] = "joined")

C12_Witness ==
    /\ pc = "Terminated"
    /\ exit = <<0>>
    /\ handle = [t \in Threads |-> "joined"]
    /\ Len(hist) = 6

(* C13: after a normal completion the line printed holds 2 exactly when    *)
(* the increments did not overlap (some thread stored before the other     *)
(* loaded) and 1 exactly when both threads loaded before either stored; if *)
(* the thread of t1 returned before the thread of t2 loaded, it holds 2.   *)
C13_At(t, op) == CHOOSE i \in DOMAIN hist : hist[i][1] = t /\ hist[i][2] = op

C13_NoOverlap ==
    \E t, u \in Threads : t # u /\ C13_At(t, "store") < C13_At(u, "load")

C13_BothLoadFirst ==
    \A t, u \in Threads : C13_At(t, "load") < C13_At(u, "store")

C13_OutcomeByOrder ==
    CompletedNormally =>
        /\ out = <<"2", "\n">> <=> C13_NoOverlap
        /\ out = <<"1", "\n">> <=> C13_BothLoadFirst
        /\ C13_At(1, "return") < C13_At(2, "load") => out = <<"2", "\n">>

C13_Witness ==
    /\ CompletedNormally
    /\ C13_At(1, "return") < C13_At(2, "load")
    /\ out = <<"2", "\n">>

C13_WitnessLost ==
    /\ CompletedNormally
    /\ C13_BothLoadFirst
    /\ out = <<"1", "\n">>

(* C14: shared_data is always 0, 1 or 2; it is 0 as long as no thread has  *)
(* stored, at least 1 once a thread has stored, and no step decreases it.  *)
C14_CellRange ==
    /\ [](shared_data \in {0, 1, 2})
    /\ []((\A i \in DOMAIN hist : hist[i][2] # "store") => shared_data = 0)
    /\ []((\E i \in DOMAIN hist : hist[i][2] = "store") => shared_data >= 1)
    /\ [][shared_data' >= shared_data]_vars

C14_Witness ==
    /\ pc = "join1"
    /\ \A t \in Threads : tpc[t] = "return"
    /\ hist[Len(hist)] = <<2, "store", 1>>
    /\ shared_data = 1

(* C15: main never writes shared_data: every step of main (create, join,   *)
(* printf, return) leaves it unchanged, it changes only in the store step  *)
(* of a thread, and the value printed is the value shared_data held when   *)
(* the last thread returned.                                               *)
C15_DriverFrame ==
    /\ [][pc' # pc \/ out' # out \/ exit' # exit \/ handle' # handle =>
            shared_data' = shared_data]_vars
    /\ [][shared_data' # shared_data =>
            \E t \in Threads : /\ tpc[t] = "store" /\ tpc'[t] = "return"
                               /\ shared_data' = reg[t]]_vars
    /\ [](Reported /\ hist # <<>> =>
            /\ hist[Len(hist)][2] = "return"
            /\ out = <<<<"0", "1", "2">>[hist[Len(hist)][3] + 1], "\n">>)

C15_Witness ==
    /\ Reported
    /\ Len(hist) = 6
    /\ hist[6] = <<1, "return", 2>>
    /\ out = <<"2", "\n">>

====
